---- MODULE Spec2Model ----
(***************************************************************************)
(* Model of the quiz-solving agent: the LangGraph control loop of          *)
(* src/agent.py (agent_node, route, ToolNode, run_agent) and the direct    *)
(* solver of src/direct_solver.py (main, solve_challenge, submit_answer,   *)
(* get_gemini_response).                                                   *)
(*                                                                         *)
(* Python strings are TLA+ strings; Python values of several types         *)
(* (a content that is None, a str or a list; an answer that is a str or    *)
(* an int) are records tagged with their type.                             *)
(***************************************************************************)
EXTENDS Integers, Sequences, FiniteSets, TLC

VARIABLES
    pc,          \* position of the process: see PcValues
    messages,    \* AgentState["messages"], the conversation
    step,        \* supersteps (node executions) of app.invoke so far
    error,       \* the exception that ended the run, "" when none
    stdout,      \* the acknowledgements printed so far (a sequence of lines)
    route_result,\* what route returned when it was last applied, "" before
    llm_calls,   \* calls of llm_with_prompt.invoke by agent_node so far
    llm_prev,    \* the reasoning capability's latest response
    budget,      \* arbitrary responses the environment may still give
    caller,      \* who called direct_solver.main: "agent_node" or "__main__"
    solver_runs, \* calls of direct_solver.main so far
    start_url,   \* main's start_url
    current_challenge_url, \* main's current_challenge_url
    visited,     \* main's visited set
    data,        \* main's data: the fetched challenge
    answer,      \* main's answer
    result,      \* main's result: the submission response
    fetched,     \* URLs main has issued a GET for, in this run of main
    posted,      \* payloads submit_answer has POSTed, in this run of main
    gemini_calls,\* requests get_gemini_response has sent, in this run of main
    GEMINI_API_KEY, \* whether GOOGLE_API_KEY is set in the environment
    environ,     \* os.environ after load_dotenv: EMAIL and SECRET
    audio_path,  \* transcribe_audio's argument
    files,       \* the file system: what is at each path of FsPaths
    genai,       \* what client.models.generate_content does when called
    tool_return  \* what the call of transcribe_audio came to

vars == <<pc, messages, step, error, stdout, route_result, llm_calls, llm_prev,
          budget, caller, solver_runs, start_url, current_challenge_url,
          visited, data, answer, result, fetched, posted, gemini_calls,
          GEMINI_API_KEY, environ, audio_path, files, genai, tool_return>>

toolVars == <<audio_path, files, genai, tool_return>>

graphVars == <<messages, step, error, stdout, route_result, llm_calls, llm_prev>>

solverVars == <<caller, solver_runs, start_url, current_challenge_url, visited,
                data, answer, result, fetched, posted, gemini_calls>>

(***************************************************************************)
(* Bounds of the model.                                                    *)
(***************************************************************************)
\* arbitrary environment responses in a run of run_agent
MaxChoices == 3
\* arbitrary environment responses in a standalone run of direct_solver.main
MaxSolverChoices == 6

(***************************************************************************)
(* Strings.                                                                *)
(***************************************************************************)
Whitespace == {" ", "\n", "\t", "\r"}

RECURSIVE lstrip(_)
lstrip(s) ==
    IF Len(s) > 0 /\ SubSeq(s, 1, 1) \in Whitespace
    THEN lstrip(SubSeq(s, 2, Len(s)))
    ELSE s

RECURSIVE rstrip(_)
rstrip(s) ==
    IF Len(s) > 0 /\ SubSeq(s, Len(s), Len(s)) \in Whitespace
    THEN rstrip(SubSeq(s, 1, Len(s) - 1))
    ELSE s

\* str.strip()
strip(s) == rstrip(lstrip(s))

\* sub in s
Contains(sub, s) ==
    \E i \in 1..(Len(s) - Len(sub) + 1) : SubSeq(s, i, i + Len(sub) - 1) = sub

\* the positions of "/" in s
SlashPositions(s) == {i \in 1..Len(s) : SubSeq(s, i, i) = "/"}

Max(S) == CHOOSE x \in S : \A y \in S : y <= x

\* s.split("/")[-1]
LastSegment(s) ==
    IF SlashPositions(s) = {} THEN s
    ELSE SubSeq(s, Max(SlashPositions(s)) + 1, Len(s))

(***************************************************************************)
(* Messages.  A content is None, a str or a list of segments; a segment    *)
(* is a dict (with or without a "text" key) or a plain str.                *)
(***************************************************************************)
NoneContent == [kind |-> "none", text |-> "", segs |-> <<>>]
Str(s) == [kind |-> "str", text |-> s, segs |-> <<>>]
List(ss) == [kind |-> "list", text |-> "", segs |-> ss]
TextSeg(s) == [is_dict |-> TRUE, has_text |-> TRUE, text |-> s]
EmptySeg == [is_dict |-> TRUE, has_text |-> FALSE, text |-> ""]
StrSeg(s) == [is_dict |-> FALSE, has_text |-> FALSE, text |-> s]

\* A message: form is "object" (a message object of langchain), "dict" or
\* "other"; has_tool_calls / has_content say whether the attribute (object)
\* or the key (dict) exists.
\* id is the message's id, 0 for None.
Message(form, type, hasCalls, calls, hasContent, content, callId) ==
    [form |-> form, type |-> type, has_tool_calls |-> hasCalls,
     tool_calls |-> calls, has_content |-> hasContent, content |-> content,
     tool_call_id |-> callId, id |-> 0]

HumanMessage(c) == Message("object", "human", FALSE, <<>>, TRUE, c, "")
AIMessage(c, calls) == Message("object", "ai", TRUE, calls, TRUE, c, "")
ToolMessage(c, id) == Message("object", "tool", FALSE, <<>>, TRUE, c, id)

END == "__end__"
RAISED == "<raised>"

\* bool(x) of a list
Truthy(calls) == Len(calls) > 0

\* route: lines 163-169, tool_calls of the latest message (None as <<>>)
ToolCallsOf(last) ==
    IF last.form \in {"object", "dict"} /\ last.has_tool_calls
    THEN last.tool_calls
    ELSE <<>>

\* route: lines 174-178, content of the latest message
ContentOf(last) ==
    IF last.form \in {"object", "dict"} /\ last.has_content
    THEN last.content
    ELSE NoneContent

\* content[0].get("text").strip() raises: IndexError on an empty list,
\* AttributeError on a segment that is no dict or has no "text"
FirstSegmentRaises(content) ==
    \/ Len(content.segs) = 0
    \/ ~content.segs[1].is_dict
    \/ ~content.segs[1].has_text

\* the mutants of route used by the claims
route_ContentFirst(state) ==
    LET last == state[Len(state)]
        content == ContentOf(last)
    IN  IF content.kind = "str" /\ strip(content.text) = "END" THEN END
        ELSE IF content.kind = "list" /\ FirstSegmentRaises(content) THEN RAISED
        ELSE IF content.kind = "list" /\ strip(content.segs[1].text) = "END" THEN END
        ELSE IF Truthy(ToolCallsOf(last)) THEN "tools"
        ELSE "agent"

route_NoStrip(state) ==
    LET last == state[Len(state)]
        content == ContentOf(last)
    IN  IF Truthy(ToolCallsOf(last)) THEN "tools"
        ELSE IF content.kind = "str" /\ strip(content.text) = "END" THEN END
        ELSE IF content.kind = "list" /\ FirstSegmentRaises(content) THEN RAISED
        ELSE IF content.kind = "list" /\ content.segs[1].text = "END" THEN END
        ELSE "agent"

\* route(state): "tools", END, "agent", or RAISED when the function raises
route(state) ==
    LET last == state[Len(state)]
        content == ContentOf(last)
    IN  IF Truthy(ToolCallsOf(last)) THEN "tools"
        ELSE IF content.kind = "str" /\ strip(content.text) = "END" THEN END
        ELSE IF content.kind = "list" /\ FirstSegmentRaises(content) THEN RAISED
        ELSE IF content.kind = "list" /\ strip(content.segs[1].text) = "END" THEN END
        ELSE "agent"

(***************************************************************************)
(* The conversation: AgentState.messages with the add_messages reducer.    *)
(***************************************************************************)
\* a dict given as a message becomes a message object (role "user" is a
\* HumanMessage)
convert_to_message(m) ==
    IF m.form = "dict"
    THEN [m EXCEPT !.form = "object",
                   !.type = IF m.type = "user" THEN "human" ELSE m.type]
    ELSE m

\* uuid4() for the j-th message of right, which has no id: an id that no
\* message has.  Ids are handed out in order, so the ids of a conversation
\* of n messages are 1..n.
FreshId(left, right, j) ==
    Len(left) + Cardinality({k \in 1..j : right[k].id = 0})

\* the reducer on a right whose messages all have ids (ids: the ids of
\* left; unique: no two messages of right share an id).  Last looks at
\* position hint first: a right that starts with the messages of left has
\* each at its own position.
Merge(left, R, ids, unique) ==
    LET Last(id, hint) ==
            IF unique /\ hint \in DOMAIN R /\ R[hint].id = id THEN hint
            ELSE LET js == {j \in DOMAIN R : R[j].id = id}
                 IN  IF js = {} THEN 0 ELSE Max(js)
        kept == [i \in DOMAIN left |->
                    IF Last(left[i].id, i) = 0 THEN left[i]
                    ELSE R[Last(left[i].id, i)]]
        firsts == {j \in DOMAIN R :
                      /\ R[j].id \notin ids
                      /\ unique \/ \A k \in 1..(j - 1) : R[k].id # R[j].id}
        appended == [k \in 1..Cardinality(firsts) |->
                        LET j == CHOOSE x \in firsts :
                                    Cardinality({y \in firsts : y < x}) = k - 1
                        IN  R[Last(R[j].id, j)]]
    IN  kept \o appended

\* right with every dict made a message object and every message given an id
WithIds(left, right) ==
    [j \in DOMAIN right |->
        IF right[j].id = 0
        THEN [convert_to_message(right[j]) EXCEPT !.id = FreshId(left, right, j)]
        ELSE convert_to_message(right[j])]

\* the reducer on evaluated arguments
MergeWithIds(left, R) ==
    CHOOSE merged \in
        {Merge(left, R, ids, unique) :
            ids \in {{left[i].id : i \in DOMAIN left}},
            unique \in {Cardinality({R[j].id : j \in DOMAIN R}) = Len(R)}} : TRUE

MergeMessages(left, right) ==
    CHOOSE merged \in
        {MergeWithIds(left, R) : R \in {WithIds(left, right) \o <<>>}} : TRUE

\* add_messages as plain concatenation (operator.add)
add_messages_Concat(left, right) == left \o right

\* add_messages(left, right): a message of right whose id is in left replaces
\* that message in place, any other is appended; a message without an id
\* gets a fresh one; the latest message of an id is the one kept
add_messages(left, right) ==
    CHOOSE merged \in {MergeMessages(l, r) : l \in {left}, r \in {right}} : TRUE

(***************************************************************************)
(* src/direct_solver.py: constants and pure functions.                     *)
(***************************************************************************)
EMAIL == "22f3002310@ds.study.iitm.ac.in"
SECRET == "I_want_to_pass"
DefaultStartUrl == "https://tds-llm-analysis.s-anand.net/project2"

\* the first position of sub in s, 0 when sub is not in s
IndexOf(sub, s) ==
    LET at == {i \in 1..(Len(s) - Len(sub) + 1) :
                  SubSeq(s, i, i + Len(sub) - 1) = sub}
    IN  IF at = {} THEN 0 ELSE CHOOSE i \in at : \A j \in at : i <= j

\* s.split(sub)[0]
SplitFirst(s, sub) ==
    IF IndexOf(sub, s) = 0 THEN s ELSE SubSeq(s, 1, IndexOf(sub, s) - 1)

\* s.split(sub)[1], for a s that holds sub
SplitSecond(s, sub) ==
    SplitFirst(SubSeq(s, IndexOf(sub, s) + Len(sub), Len(s)), sub)

\* s.replace(sub, "")
RECURSIVE Remove(_, _)
Remove(s, sub) ==
    IF IndexOf(sub, s) = 0 THEN s
    ELSE SubSeq(s, 1, IndexOf(sub, s) - 1)
           \o Remove(SubSeq(s, IndexOf(sub, s) + Len(sub), Len(s)), sub)

\* The Markdown fence of three backquotes, written with the character "~":
\* a TLA+ string cannot hold a backquote.
Fence == "~~~"
JsonFence == Fence \o "json"

\* an answer is a str or an int
StrAnswer(s) == [kind |-> "str", s |-> s, n |-> 0]
IntAnswer(n) == [kind |-> "int", s |-> "", n |-> n]
NoAnswer == [kind |-> "none", s |-> "", n |-> 0]

\* what get_gemini_response returns: None, or the stripped text
GeminiNone == [none |-> TRUE, text |-> ""]
GeminiText(t) == [none |-> FALSE, text |-> strip(t)]

\* bool(ans) of an optional str
TruthyText(ans) == ~ans.none /\ Len(ans.text) > 0

\* solve_challenge calls get_gemini_response for this challenge name: the
\* audio and csv entries and the default, each reached only when no earlier
\* entry of the table matches
CallsGemini(challenge_name) ==
    /\ ~Contains("uv", challenge_name)
    /\ ~Contains("git", challenge_name)
    /\ ~Contains("md", challenge_name)
    /\ \/ Contains("audio", challenge_name)
       \/ Contains("csv", challenge_name)
       \/ ~(\/ Contains("gh-tree", challenge_name)
            \/ Contains("logs", challenge_name)
            \/ Contains("rate", challenge_name))

\* the challenge name matches no entry of the dispatch table
UnknownChallenge(challenge_name) ==
    \A key \in {"uv", "git", "md", "audio", "csv", "gh-tree", "logs", "rate"} :
        ~Contains(key, challenge_name)

\* solve_challenge(challenge_name, question, task_url), given what
\* get_gemini_response returns (ans) and the local *.jsonl files (jsonl:
\* reading them raises, or their lines hold total_bytes characters).
\* [raises, answer]: the csv entry raises TypeError on a None ans.
solve_challenge(challenge_name, question, task_url, ans, jsonl) ==
    IF Contains("uv", challenge_name) THEN
        [raises |-> FALSE,
         answer |-> StrAnswer("uv http get -H \"Accept: application/json\" "
                                \o task_url \o "/uv.json?email=" \o EMAIL)]
    ELSE IF Contains("git", challenge_name) THEN
        [raises |-> FALSE,
         answer |-> StrAnswer("git add env.sample\ngit commit -m \"chore: keep env sample\"")]
    ELSE IF Contains("md", challenge_name) THEN
        [raises |-> FALSE, answer |-> StrAnswer("/project2/data-preparation.md")]
    ELSE IF Contains("audio", challenge_name) THEN
        [raises |-> FALSE,
         answer |-> IF TruthyText(ans) THEN StrAnswer(ans.text)
                    ELSE StrAnswer("hushed parrot 219")]
    ELSE IF Contains("csv", challenge_name) THEN
        IF ans.none THEN [raises |-> TRUE, answer |-> NoAnswer]
        ELSE IF Contains(JsonFence, ans.text)
        THEN [raises |-> FALSE,
              answer |-> StrAnswer(strip(SplitFirst(SplitSecond(ans.text, JsonFence), Fence)))]
        ELSE [raises |-> FALSE, answer |-> StrAnswer(ans.text)]
    ELSE IF Contains("gh-tree", challenge_name) THEN
        [raises |-> FALSE, answer |-> IntAnswer(1)]
    ELSE IF Contains("logs", challenge_name) THEN
        [raises |-> FALSE,
         answer |-> IF jsonl.raises THEN IntAnswer(335)
                    ELSE IntAnswer(jsonl.total_bytes + (Len(EMAIL) % 5))]
    ELSE IF Contains("rate", challenge_name) THEN
        [raises |-> FALSE, answer |-> IntAnswer(71)]
    ELSE IF TruthyText(ans)
    THEN [raises |-> FALSE,
          answer |-> StrAnswer(strip(Remove(Remove(ans.text, JsonFence), Fence)))]
    ELSE [raises |-> FALSE, answer |-> StrAnswer("UNKNOWN")]

\* "/".join(start_url.split("/")[:3]) + "/submit"
SubmitEndpoint(url) ==
    LET slashes == SlashPositions(url)
        third == {i \in slashes : Cardinality({j \in slashes : j < i}) = 2}
    IN  (IF third = {} THEN url
         ELSE SubSeq(url, 1, (CHOOSE i \in third : TRUE) - 1)) \o "/submit"

\* submit_answer's payload
Payload(task_url, ans) ==
    [email |-> EMAIL, secret |-> SECRET, url |-> task_url, answer |-> ans]

(***************************************************************************)
(* The environment: the reasoning capability, the quiz server, the Gemini  *)
(* endpoint and the local files.  Its first `budget' responses are         *)
(* arbitrary; every later one is the default response.                     *)
(***************************************************************************)
Call(name, id) == [name |-> name, id |-> id]

\* what llm_with_prompt.invoke does: it raises, or returns an AIMessage
LLMFails == [ok |-> FALSE, msg |-> AIMessage(NoneContent, <<>>)]
LLMReturns(m) == [ok |-> TRUE, msg |-> m]

LLMResponses ==
    {LLMFails,
     LLMReturns(AIMessage(Str(""), <<Call("get_rendered_html", "call_1")>>)),
     LLMReturns(AIMessage(Str("END"), <<Call("download_file", "call_1"),
                                        Call("transcribe_audio", "call_2")>>)),
     LLMReturns(AIMessage(Str("Fetching the page"), <<>>)),
     LLMReturns(AIMessage(Str("END"), <<>>)),
     LLMReturns(AIMessage(List(<<TextSeg(" END ")>>), <<>>)),
     LLMReturns(AIMessage(List(<<>>), <<>>))}

\* the responses the environment may give now, out of all and the default
Choices(all, default) == IF budget > 0 THEN all ELSE {default}

Spend == budget' = IF budget > 0 THEN budget - 1 ELSE 0

Base == "https://tds-llm-analysis.s-anand.net"

\* the challenge URLs the server names
Urls == {DefaultStartUrl, Base \o "/project2-uv", Base \o "/project2-audio",
         Base \o "/project2-csv", Base \o "/project2-logs"}

\* A "url" that is a JSON array with one URL in it (a Python list), written
\* as its JSON text: a value main takes as the next URL and cannot hash
UrlList == "[\"https://tds-llm-analysis.s-anand.net/project2\"]"

\* hash(url) does not raise
Hashable(url) == url # UrlList

\* sys.argv[1] of a standalone run, or the default
StartUrls == {DefaultStartUrl, "https://quiz.example.org/demo/project2-rate"}

\* requests.get(current_challenge_url): it raises, or answers with a status
\* and a body
GetOk(q) == [kind |-> "ok", question |-> q]
GetOutcomes ==
    {[kind |-> "exception", question |-> ""],
     [kind |-> "status", question |-> ""],
     [kind |-> "not_json", question |-> ""],
     GetOk(""), GetOk("What is the passphrase?"),
     GetOk("POST your answer to https://quiz.example.org/submit")}

\* the Gemini endpoint: the first request answers, or it fails and the
\* retry with gemini-pro answers or fails too
GeminiOutcomes ==
    {[requests |-> 1, response |-> GeminiText(" hushed parrot 219\n")],
     [requests |-> 1, response |-> GeminiText(JsonFence \o "\n[1, 2]\n" \o Fence)],
     [requests |-> 2, response |-> GeminiText("")],
     [requests |-> 2, response |-> GeminiNone]}
GeminiDown == [requests |-> 2, response |-> GeminiNone]

\* get_gemini_response(prompt): without a key it returns None and sends
\* nothing
get_gemini_response(g) ==
    IF ~GEMINI_API_KEY THEN [requests |-> 0, response |-> GeminiNone] ELSE g

\* the *.jsonl files of the working directory
JsonlOutcomes ==
    {[raises |-> TRUE, total_bytes |-> 0], [raises |-> FALSE, total_bytes |-> 0],
     [raises |-> FALSE, total_bytes |-> 330]}
NoJsonl == [raises |-> FALSE, total_bytes |-> 0]

\* solve_challenge reads the local *.jsonl files for this challenge name
ReadsJsonl(challenge_name) ==
    /\ Contains("logs", challenge_name)
    /\ \A key \in {"uv", "git", "md", "audio", "csv", "gh-tree"} :
           ~Contains(key, challenge_name)

\* requests.post(submit_url).json(): it raises (submit_answer returns {}),
\* or gives a JSON value that is a dict or not
PostDict(hasCorrect, correct, hasUrl, url) ==
    [kind |-> "dict", has_correct |-> hasCorrect, correct |-> correct,
     has_url |-> hasUrl, url |-> url]
EmptyDict == PostDict(FALSE, FALSE, FALSE, "")
NoResult == [kind |-> "none", has_correct |-> FALSE, correct |-> FALSE,
             has_url |-> FALSE, url |-> ""]
PostOutcomes ==
    {[NoResult EXCEPT !.kind = "exception"], [NoResult EXCEPT !.kind = "not_dict"]}
    \cup {PostDict(TRUE, c, FALSE, "") : c \in BOOLEAN}
    \cup {PostDict(TRUE, c, TRUE, u) : c \in BOOLEAN, u \in Urls \cup {"", UrlList}}

\* the submission response once the arbitrary responses are spent: the
\* server repeats its latest response of this run, {} when there is none
PrevResponse(res) == IF res.kind = "none" THEN EmptyDict ELSE res

NoData == [kind |-> "none", question |-> ""]

(***************************************************************************)
(* src/agent.py: the graph.  A node's conditional edge is evaluated with   *)
(* the node, so one action is the node, the reducer and the routing.       *)
(***************************************************************************)
recursion_limit == 300

\* lines 28-31: ChatGoogleGenerativeAI(model, google_api_key) is given no
\* rate_limiter, so the chat model's rate_limiter is None and a call of
\* llm_with_prompt.invoke acquires nothing (InMemoryRateLimiter is imported
\* at line 2 and never instantiated)
rate_limiter == "None"

\* acquisitions from the rate limiter made by n reasoning calls
Acquired(n) == IF rate_limiter = "None" THEN 0 ELSE n

SuccessLine == "Tasks completed succesfully"
FailsafeText == "Emergency failsafe completed all tasks."

PcValues == {"agent", "tools", "main", "fetch", "solve", "submit", "return",
             "done", "raised", "exit", "route", "routed", "transcribe",
             "transcribed", "crashed"}

\* AfterNode with a ceiling that ends the run silently
AfterNode_SilentCeiling(r, s) ==
    IF r = RAISED THEN [pc |-> "raised", error |-> "route raised"]
    ELSE IF r = END \/ s >= recursion_limit THEN [pc |-> "done", error |-> ""]
    ELSE [pc |-> r, error |-> ""]

\* where control goes after a node that ran as superstep number s: to the
\* node r, or out of app.invoke: a GraphRecursionError when another node is
\* due and recursion_limit supersteps have run
AfterNode(r, s) ==
    IF r = RAISED THEN [pc |-> "raised", error |-> "route raised"]
    ELSE IF r = END THEN [pc |-> "done", error |-> ""]
    ELSE IF s >= recursion_limit
    THEN [pc |-> "raised", error |-> "GraphRecursionError"]
    ELSE [pc |-> r, error |-> ""]

\* agent_node returns {"messages": returned}: the reducer, then route, then
\* run_agent's print when app.invoke returns
FinishAgentNode(returned) ==
    \E msgs \in {add_messages(messages, returned)} :
    \E r \in {route(msgs)} :
    \E next \in {AfterNode(r, step + 1)} :
        /\ messages' = msgs
        /\ step' = step + 1
        /\ route_result' = r
        /\ pc' = next.pc
        /\ error' = next.error
        /\ stdout' = IF next.pc = "done" THEN Append(stdout, SuccessLine)
                     ELSE stdout

\* agent_node, lines 143-145: the reasoning call returns
AgentNode ==
    /\ pc = "agent"
    /\ \E r \in Choices(LLMResponses, llm_prev) :
        /\ r.ok
        /\ Spend
        /\ llm_calls' = llm_calls + 1
        /\ llm_prev' = r
        /\ FinishAgentNode(messages \o <<r.msg>>)
    /\ UNCHANGED <<solverVars, GEMINI_API_KEY,
                   environ, toolVars>>

\* AgentNodeFailsafe that passes the seed URL of the run to main
AgentNodeFailsafe_SeedUrl ==
    /\ pc = "agent"
    /\ \E r \in Choices(LLMResponses, llm_prev) :
        /\ ~r.ok
        /\ Spend
        /\ llm_calls' = llm_calls + 1
        /\ llm_prev' = r
    /\ pc' = "main"
    /\ caller' = "agent_node"
    /\ solver_runs' = solver_runs + 1
    /\ start_url' = messages[1].content.text
    /\ current_challenge_url' = messages[1].content.text
    /\ visited' = {}
    /\ data' = NoData
    /\ answer' = NoAnswer
    /\ result' = NoResult
    /\ fetched' = <<>>
    /\ posted' = <<>>
    /\ gemini_calls' = 0
    /\ UNCHANGED <<messages, step, error, stdout, route_result, GEMINI_API_KEY,
                   environ, toolVars>>

\* agent_node, lines 146-152: the reasoning call raises and agent_node
\* calls direct_solver.main() (lines 180-188: main's entry)
AgentNodeFailsafe ==
    /\ pc = "agent"
    /\ \E r \in Choices(LLMResponses, llm_prev) :
        /\ ~r.ok
        /\ Spend
        /\ llm_calls' = llm_calls + 1
        /\ llm_prev' = r
    /\ pc' = "main"
    /\ caller' = "agent_node"
    /\ solver_runs' = solver_runs + 1
    /\ start_url' = DefaultStartUrl
    /\ current_challenge_url' = DefaultStartUrl
    /\ visited' = {}
    /\ data' = NoData
    /\ answer' = NoAnswer
    /\ result' = NoResult
    /\ fetched' = <<>>
    /\ posted' = <<>>
    /\ gemini_calls' = 0
    /\ UNCHANGED <<messages, step, error, stdout, route_result, GEMINI_API_KEY,
                   environ, toolVars>>

\* ToolResults with the results in the reverse order of the requests
ToolResults_Reversed(calls) ==
    [k \in 1..Len(calls) |->
        ToolMessage(Str("output of " \o calls[Len(calls) + 1 - k].name),
                    calls[Len(calls) + 1 - k].id)]

\* the ToolMessages of ToolNode for the calls of the latest message
RECURSIVE ToolResults(_)
ToolResults(calls) ==
    IF Len(calls) = 0 THEN <<>>
    ELSE <<ToolMessage(Str("output of " \o Head(calls).name), Head(calls).id)>>
           \o ToolResults(Tail(calls))

\* ToolNode with an edge tools -> END
ToolNode_Ends ==
    /\ pc = "tools"
    /\ messages' = add_messages(messages,
                                ToolResults(messages[Len(messages)].tool_calls))
    /\ step' = step + 1
    /\ pc' = "done"
    /\ error' = ""
    /\ stdout' = Append(stdout, SuccessLine)
    /\ UNCHANGED <<route_result, llm_calls, llm_prev, budget,
                   solverVars, GEMINI_API_KEY,
                   environ, toolVars>>

\* ToolNode(TOOLS), then the edge tools -> agent
ToolNode ==
    /\ pc = "tools"
    /\ messages' = add_messages(messages,
                                ToolResults(messages[Len(messages)].tool_calls))
    /\ step' = step + 1
    /\ pc' = AfterNode("agent", step + 1).pc
    /\ error' = AfterNode("agent", step + 1).error
    /\ UNCHANGED <<stdout, route_result, llm_calls, llm_prev, budget,
                   solverVars, GEMINI_API_KEY,
                   environ, toolVars>>

(***************************************************************************)
(* src/direct_solver.py: main.                                             *)
(***************************************************************************)
\* an exception leaves main: agent_node prints and re-raises it (agent.py
\* lines 154-156) and app.invoke and run_agent pass it on; a standalone run
\* dies with the traceback
MainRaises(exception) ==
    /\ pc' = IF caller = "agent_node" THEN "raised" ELSE "crashed"
    /\ error' = exception
    /\ UNCHANGED <<messages, step, stdout, route_result, llm_calls, llm_prev,
                   visited>>

\* MainLoop without visited.add
MainLoop_NoAdd ==
    /\ pc = "main"
    /\ IF current_challenge_url = ""
       THEN /\ pc' = "return"
            /\ UNCHANGED <<graphVars, visited>>
       ELSE IF ~Hashable(current_challenge_url)
       THEN MainRaises("TypeError")
       ELSE IF current_challenge_url \in visited
       THEN /\ pc' = "return"
            /\ UNCHANGED <<graphVars, visited>>
       ELSE /\ pc' = "fetch"
            /\ UNCHANGED <<graphVars, visited>>
    /\ UNCHANGED <<budget, caller, solver_runs, start_url,
                   current_challenge_url, data, answer, result, fetched,
                   posted, gemini_calls, GEMINI_API_KEY,
                   environ, toolVars>>

\* MainLoop without the cycle guard
MainLoop_NoGuard ==
    /\ pc = "main"
    /\ IF current_challenge_url = ""
       THEN /\ pc' = "return"
            /\ UNCHANGED <<graphVars, visited>>
       ELSE IF ~Hashable(current_challenge_url)
       THEN MainRaises("TypeError")
       ELSE /\ pc' = "fetch"
            /\ visited' = visited \cup {current_challenge_url}
            /\ UNCHANGED graphVars
    /\ UNCHANGED <<budget, caller, solver_runs, start_url,
                   current_challenge_url, data, answer, result, fetched,
                   posted, gemini_calls, GEMINI_API_KEY,
                   environ, toolVars>>

\* lines 190-194: the loop's test, the cycle guard, visited.add.  The test
\* "in visited" hashes the URL outside the try block: a URL that cannot be
\* hashed raises TypeError out of main.
MainLoop ==
    /\ pc = "main"
    /\ IF current_challenge_url = ""
       THEN /\ pc' = "return"
            /\ UNCHANGED <<graphVars, visited>>
       ELSE IF ~Hashable(current_challenge_url)
       THEN MainRaises("TypeError")
       ELSE IF current_challenge_url \in visited
       THEN /\ pc' = "return"
            /\ UNCHANGED <<graphVars, visited>>
       ELSE /\ pc' = "fetch"
            /\ visited' = visited \cup {current_challenge_url}
            /\ UNCHANGED graphVars
    /\ UNCHANGED <<budget, caller, solver_runs, start_url,
                   current_challenge_url, data, answer, result, fetched,
                   posted, gemini_calls, GEMINI_API_KEY,
                   environ, toolVars>>

\* Fetch without the test of the status code
Fetch_IgnoreStatus ==
    /\ pc = "fetch"
    /\ fetched' = Append(fetched, current_challenge_url)
    /\ \E g \in Choices(GetOutcomes, GetOk("")) :
        /\ Spend
        /\ data' = g
        /\ pc' = IF g.kind \in {"ok", "status"} THEN "solve" ELSE "return"
    /\ UNCHANGED <<graphVars, caller, solver_runs, start_url,
                   current_challenge_url, visited, answer, result, posted,
                   gemini_calls, GEMINI_API_KEY,
                   environ, toolVars>>

\* lines 197-210: the GET and what main reads of its response
Fetch ==
    /\ pc = "fetch"
    /\ fetched' = Append(fetched, current_challenge_url)
    /\ \E g \in Choices(GetOutcomes, GetOk("")) :
        /\ Spend
        /\ data' = g
        /\ pc' = IF g.kind = "ok" THEN "solve" ELSE "return"
    /\ UNCHANGED <<graphVars, caller, solver_runs, start_url,
                   current_challenge_url, visited, answer, result, posted,
                   gemini_calls, GEMINI_API_KEY,
                   environ, toolVars>>

\* the environment solve_challenge consults for this challenge name
SolveEnvs(challenge_name) ==
    IF CallsGemini(challenge_name)
    THEN {[gemini |-> g, jsonl |-> NoJsonl] : g \in Choices(GeminiOutcomes, GeminiDown)}
    ELSE IF ReadsJsonl(challenge_name)
    THEN {[gemini |-> GeminiDown, jsonl |-> j] : j \in Choices(JsonlOutcomes, NoJsonl)}
    ELSE {[gemini |-> GeminiDown, jsonl |-> NoJsonl]}

\* lines 208-214: challenge_name and solve_challenge
Solve ==
    /\ pc = "solve"
    /\ LET challenge_name == LastSegment(current_challenge_url)
       IN  \E env \in SolveEnvs(challenge_name) :
            LET g == get_gemini_response(env.gemini)
                solved == solve_challenge(challenge_name, data.question,
                                          current_challenge_url, g.response,
                                          env.jsonl)
            IN  /\ IF CallsGemini(challenge_name) \/ ReadsJsonl(challenge_name)
                   THEN Spend ELSE UNCHANGED budget
                /\ gemini_calls' = IF CallsGemini(challenge_name)
                                   THEN gemini_calls + g.requests
                                   ELSE gemini_calls
                /\ answer' = solved.answer
                /\ pc' = IF solved.raises THEN "return" ELSE "submit"
    /\ UNCHANGED <<graphVars, caller, solver_runs, start_url,
                   current_challenge_url, visited, data, result, fetched,
                   posted, GEMINI_API_KEY,
                   environ, toolVars>>

\* Submit that follows the next URL only after a correct answer
Submit_FollowOnlyCorrect ==
    /\ pc = "submit"
    /\ posted' = Append(posted,
                        [endpoint |-> SubmitEndpoint(start_url),
                         payload |-> Payload(current_challenge_url, answer)])
    /\ \E r \in Choices(PostOutcomes, PrevResponse(result)) :
        LET res == IF r.kind = "exception" THEN EmptyDict ELSE r
            next_url == IF res.kind = "dict" /\ res.has_url THEN res.url ELSE ""
        IN  /\ Spend
            /\ result' = res
            /\ IF res.kind = "dict" /\ next_url # "" /\ res.correct
               THEN /\ current_challenge_url' = next_url
                    /\ pc' = "main"
               ELSE /\ UNCHANGED current_challenge_url
                    /\ pc' = "return"
    /\ UNCHANGED <<graphVars, caller, solver_runs, start_url, visited, data,
                   answer, fetched, gemini_calls, GEMINI_API_KEY,
                   environ, toolVars>>

\* lines 217-239: submit_answer, then the next URL
Submit ==
    /\ pc = "submit"
    /\ posted' = Append(posted,
                        [endpoint |-> SubmitEndpoint(start_url),
                         payload |-> Payload(current_challenge_url, answer)])
    /\ \E r \in Choices(PostOutcomes, PrevResponse(result)) :
        LET res == IF r.kind = "exception" THEN EmptyDict ELSE r
            next_url == IF res.kind = "dict" /\ res.has_url THEN res.url ELSE ""
        IN  /\ Spend
            /\ result' = res
            /\ IF res.kind = "dict" /\ next_url # ""
               THEN /\ current_challenge_url' = next_url
                    /\ pc' = "main"
               ELSE /\ UNCHANGED current_challenge_url
                    /\ pc' = "return"
    /\ UNCHANGED <<graphVars, caller, solver_runs, start_url, visited, data,
                   answer, fetched, gemini_calls, GEMINI_API_KEY,
                   environ, toolVars>>

\* main returns to agent_node, line 153: the failsafe message
MainReturnsToAgent ==
    /\ pc = "return"
    /\ caller = "agent_node"
    /\ FinishAgentNode(messages \o <<AIMessage(Str(FailsafeText), <<>>)>>)
    /\ UNCHANGED <<llm_calls, llm_prev, budget, solverVars, GEMINI_API_KEY,
                   environ, toolVars>>

\* main returns to the script, lines 245-247
MainReturnsToScript ==
    /\ pc = "return"
    /\ caller = "__main__"
    /\ pc' = "exit"
    /\ UNCHANGED <<graphVars, budget, solverVars, GEMINI_API_KEY,
                   environ, toolVars>>

(***************************************************************************)
(* src/tools/transcription.py: transcribe_audio.                           *)
(***************************************************************************)
\* the paths the model's file system knows
FsPaths == {"clip.mp3", "audio/clip.wav", "LLMFiles/clip.mp3", "LLMFiles/clip.wav"}

\* what is at a path: nothing, a file that can be read, or something that
\* exists and cannot be opened for reading (a directory, a file without
\* permission, a file removed after the test)
FileKinds == {"absent", "file", "unreadable"}

\* the arguments the Decision Step may pass
AudioPaths == {"clip.mp3", "audio/clip.wav", "LLMFiles/clip.mp3", "missing.ogg"}

\* os.path.exists(path)
Exists(path) == path \in DOMAIN files /\ files[path] # "absent"

\* os.path.join("LLMFiles", os.path.basename(path))
AltPath(path) == "LLMFiles/" \o LastSegment(path)

\* s.endswith(suffix)
EndsWith(s, suffix) ==
    Len(s) >= Len(suffix) /\ SubSeq(s, Len(s) - Len(suffix) + 1, Len(s)) = suffix

\* lines 38-42
MimeType(path) ==
    IF EndsWith(path, ".wav") THEN "audio/wav"
    ELSE IF EndsWith(path, ".ogg") THEN "audio/ogg"
    ELSE "audio/mp3"

\* client.models.generate_content: it raises with a message, or gives a
\* response with a text
GenaiOutcomes ==
    {[raises |-> TRUE, text |-> "503 UNAVAILABLE"],
     [raises |-> FALSE, text |-> "the passphrase is hushed parrot 219"],
     [raises |-> FALSE, text |-> ""]}
NoGenai == [raises |-> FALSE, text |-> ""]

\* how a call ends: it returns a value (a str) or an exception leaves it;
\* sent is the mime type of the request to Gemini, "" when none was sent
Returns(text, sent) == [kind |-> "str", text |-> text, sent |-> sent]
Raises(text) == [kind |-> "raised", text |-> text, sent |-> ""]
NotReturned == [kind |-> "none", text |-> "", sent |-> ""]

\* lines 33-60 without the try: an exception leaves the function
Transcribe_NoExcept(path) ==
    IF files[path] = "unreadable"
    THEN Raises("[Errno 13] Permission denied: '" \o path \o "'")
    ELSE IF genai.raises
    THEN Raises(genai.text)
    ELSE Returns(genai.text, MimeType(path))

\* lines 33-60: the try block on the path that was found
Transcribe(path) ==
    IF files[path] = "unreadable"
    THEN Returns("Error transcribing audio: [Errno 13] Permission denied: '"
                    \o path \o "'", "")
    ELSE IF genai.raises
    THEN Returns("Error transcribing audio: " \o genai.text, MimeType(path))
    ELSE Returns(genai.text, MimeType(path))

\* transcribe_audio(audio_path), lines 25-31 and then the try block
transcribe_audio(path) ==
    IF Exists(path) THEN Transcribe(path)
    ELSE IF Exists(AltPath(path)) THEN Transcribe(AltPath(path))
    ELSE Returns("Error: File " \o path \o " does not exist.", "")

(***************************************************************************)
(* Specifications.                                                         *)
(***************************************************************************)
SeedUrls == {DefaultStartUrl, Base \o "/project2-uv"}

\* os.environ: EMAIL and SECRET as configured
Environs ==
    {[EMAIL |-> "22f3002310@ds.study.iitm.ac.in", SECRET |-> "I_want_to_pass"],
     [EMAIL |-> "student@example.org", SECRET |-> "s3cret"]}

\* transcribe_audio is not running
InitToolIdle ==
    /\ audio_path = ""
    /\ files = <<>>
    /\ genai = NoGenai
    /\ tool_return = NotReturned

InitSolverIdle ==
    /\ caller = ""
    /\ solver_runs = 0
    /\ start_url = ""
    /\ current_challenge_url = ""
    /\ visited = {}
    /\ data = NoData
    /\ answer = NoAnswer
    /\ result = NoResult
    /\ fetched = <<>>
    /\ posted = <<>>
    /\ gemini_calls = 0

InitGraphIdle ==
    /\ messages = <<>>
    /\ step = 0
    /\ error = ""
    /\ stdout = <<>>
    /\ route_result = ""
    /\ llm_calls = 0
    /\ llm_prev = LLMFails

\* run_agent(url): app.invoke with the seed message, START -> agent
Init ==
    /\ pc = "agent"
    /\ \E url \in SeedUrls :
        messages = add_messages(<<>>,
            <<Message("dict", "user", FALSE, <<>>, TRUE, Str(url), "")>>)
    /\ step = 0
    /\ error = ""
    /\ stdout = <<>>
    /\ route_result = ""
    /\ llm_calls = 0
    /\ llm_prev = LLMFails
    /\ budget = MaxChoices
    /\ GEMINI_API_KEY = TRUE
    /\ environ = CHOOSE e \in Environs : e.EMAIL # EMAIL
    /\ InitToolIdle
    /\ InitSolverIdle

Next ==
    \/ AgentNode
    \/ AgentNodeFailsafe
    \/ ToolNode
    \/ MainLoop
    \/ Fetch
    \/ Solve
    \/ Submit
    \/ MainReturnsToAgent

Spec == Init /\ [][Next]_vars

\* run_agent on the default start URL
InitDefault == Init /\ messages[1].content = Str(DefaultStartUrl)

\* The process is sequential and every call it blocks on returns or raises
\* (the requests of direct_solver.py carry timeouts): a step that can be
\* taken is taken.
FairSpec == InitDefault /\ [][Next]_vars /\ WF_vars(Next)

\* python direct_solver.py [url]: main(url), lines 180-188 and 245-247
InitSolver ==
    /\ pc = "main"
    /\ InitGraphIdle
    /\ budget = MaxSolverChoices
    /\ GEMINI_API_KEY \in BOOLEAN
    /\ environ \in Environs
    /\ InitToolIdle
    /\ caller = "__main__"
    /\ solver_runs = 1
    /\ start_url \in StartUrls
    /\ current_challenge_url = start_url
    /\ visited = {}
    /\ data = NoData
    /\ answer = NoAnswer
    /\ result = NoResult
    /\ fetched = <<>>
    /\ posted = <<>>
    /\ gemini_calls = 0

NextSolver ==
    \/ MainLoop
    \/ Fetch
    \/ Solve
    \/ Submit
    \/ MainReturnsToScript

SpecSolver == InitSolver /\ [][NextSolver]_vars

\* main is sequential and every request it makes carries a timeout: a step
\* that can be taken is taken
FairSpecSolver == SpecSolver /\ WF_vars(NextSolver)

(***************************************************************************)
(* route on its own: applied to a conversation whose latest message is any *)
(* message of RouteInputs.                                                 *)
(***************************************************************************)
RouteContents ==
    {NoneContent, Str(""), Str("END"), Str(" END "), Str("END\n"), Str("\tEND"),
     Str("end"), Str("ENDING"), Str("The END"), Str("E ND"), Str("hello"),
     List(<<>>), List(<<TextSeg("END")>>), List(<<TextSeg(" END ")>>),
     List(<<TextSeg("hi")>>), List(<<TextSeg("")>>),
     List(<<TextSeg("hi"), TextSeg("END")>>),
     List(<<TextSeg("END"), TextSeg("more")>>),
     List(<<EmptySeg>>), List(<<StrSeg("END")>>)}

RouteCalls ==
    {<<>>, <<Call("run_code", "call_1")>>,
     <<Call("post_request", "call_1"), Call("run_code", "call_2")>>}

\* AIMessages and dicts with tool_calls and content; objects and dicts
\* without tool_calls (a HumanMessage, a ToolMessage); a dict without
\* content; a value that is neither
RouteInputs ==
    {[Message(f, "ai", TRUE, calls, TRUE, c, "") EXCEPT !.id = 2] :
        f \in {"object", "dict"}, calls \in RouteCalls, c \in RouteContents}
    \cup {[Message(f, t, FALSE, <<>>, TRUE, c, "") EXCEPT !.id = 2] :
        f \in {"object", "dict"}, t \in {"human", "tool"}, c \in RouteContents}
    \cup {[Message("dict", "ai", TRUE, calls, FALSE, NoneContent, "") EXCEPT !.id = 2] :
        calls \in RouteCalls}
    \cup {[Message("other", "", FALSE, <<>>, FALSE, NoneContent, "") EXCEPT !.id = 2]}

InitRoute ==
    /\ pc = "route"
    /\ \E m \in RouteInputs :
        messages = add_messages(<<>>,
            <<Message("dict", "user", FALSE, <<>>, TRUE, Str(DefaultStartUrl), "")>>)
            \o <<m>>
    /\ step = 0
    /\ error = ""
    /\ stdout = <<>>
    /\ route_result = ""
    /\ llm_calls = 0
    /\ llm_prev = LLMFails
    /\ budget = 0
    /\ GEMINI_API_KEY = TRUE
    /\ environ = CHOOSE e \in Environs : e.EMAIL = EMAIL
    /\ InitToolIdle
    /\ InitSolverIdle

\* route(state) is called
Route ==
    /\ pc = "route"
    /\ route_result' = route(messages)
    /\ pc' = "routed"
    /\ UNCHANGED <<messages, step, error, stdout, llm_calls, llm_prev, budget,
                   solverVars, GEMINI_API_KEY,
                   environ, toolVars>>

NextRoute == Route

SpecRoute == InitRoute /\ [][NextRoute]_vars

(***************************************************************************)
(* transcribe_audio on its own: one call, for any argument, file system    *)
(* and behaviour of the Gemini client.                                     *)
(***************************************************************************)
InitTranscribe ==
    /\ pc = "transcribe"
    /\ audio_path \in AudioPaths
    /\ files \in [FsPaths -> FileKinds]
    /\ genai \in GenaiOutcomes
    /\ tool_return = NotReturned
    /\ InitGraphIdle
    /\ InitSolverIdle
    /\ budget = 0
    /\ GEMINI_API_KEY = TRUE
    /\ environ = CHOOSE e \in Environs : e.EMAIL = EMAIL

\* the tool is invoked
TranscribeAudio ==
    /\ pc = "transcribe"
    /\ tool_return' = transcribe_audio(audio_path)
    /\ pc' = "transcribed"
    /\ UNCHANGED <<graphVars, budget, solverVars, GEMINI_API_KEY, environ,
                   audio_path, files, genai>>

NextTranscribe == TranscribeAudio

SpecTranscribe == InitTranscribe /\ [][NextTranscribe]_vars

\* the latest message of the conversation
Latest == messages[Len(messages)]

\* content trims to "END": a str, or a list by its first segment's text
IsMarker(content) ==
    \/ content.kind = "str" /\ strip(content.text) = "END"
    \/ /\ content.kind = "list"
       /\ Len(content.segs) > 0
       /\ content.segs[1].is_dict
       /\ content.segs[1].has_text
       /\ strip(content.segs[1].text) = "END"

\* C1: whenever route has been applied to a conversation whose latest
\* message carries at least one tool call, it returned "tools", whatever
\* the content of the message
C1_ToolCallsGoToTools ==
    (pc = "routed" /\ Latest.has_tool_calls /\ Len(Latest.tool_calls) >= 1)
        => route_result = "tools"

\* C1's case: route returned for a message with tool calls whose content
\* trims to "END"
C1_Witness ==
    /\ pc = "routed"
    /\ Len(Latest.tool_calls) = 2
    /\ Latest.content = Str(" END ")
    /\ route_result = "tools"

\* C2: whenever route has been applied to a latest message without tool
\* calls whose content trims to "END" (a str, or a list whose first segment
\* has that text), it returned END
C2_MarkerEnds ==
    (pc = "routed" /\ ~Truthy(ToolCallsOf(Latest)) /\ IsMarker(ContentOf(Latest)))
        => route_result = END

\* C2's case: the list [{"text": " END "}] was routed to END
C2_Witness ==
    /\ pc = "routed"
    /\ Latest.content = List(<<TextSeg(" END ")>>)
    /\ Latest.tool_calls = <<>>
    /\ route_result = END

\* C3: whenever route has been applied to a latest message without tool
\* calls whose content is not the marker, it returned "agent" (it neither
\* returned END nor raised)
C3_NonMarkerGoesToAgent ==
    (pc = "routed" /\ ~Truthy(ToolCallsOf(Latest)) /\ ~IsMarker(ContentOf(Latest)))
        => route_result = "agent"

(***************************************************************************)
(* The control loop and the direct solver.                                 *)
(***************************************************************************)
Range(seq) == {seq[i] : i \in DOMAIN seq}

\* the run of run_agent is over
Terminated == pc \in {"done", "raised"}

\* the Decision Step has emitted the terminal marker
MarkerEmitted ==
    \E i \in DOMAIN messages :
        messages[i].type = "ai" /\ IsMarker(messages[i].content)

\* C4 (as claimed): once direct_solver.main has been started, the reasoning
\* call is not attempted again and main is not started again
C4_OneShotHandoff ==
    [][solver_runs >= 1 =>
          (llm_calls' = llm_calls /\ solver_runs' = solver_runs)]_vars

\* C5 (as claimed): a run of run_agent in which the Decision Step never
\* emits the marker ends at the ceiling of recursion_limit supersteps, by
\* the GraphRecursionError raised to the caller, and in no other way
C5_StopsAtCeiling ==
    (Terminated /\ ~MarkerEmitted)
        => (pc = "raised" /\ error = "GraphRecursionError"
            /\ step = recursion_limit)

\* how every run of run_agent ends: within recursion_limit supersteps, by
\* the GraphRecursionError only at exactly recursion_limit supersteps, and
\* by an error whenever the marker was never emitted
EndsWithinCeiling ==
    /\ Terminated
    /\ step <= recursion_limit
    /\ error = "GraphRecursionError" => (pc = "raised" /\ step = recursion_limit)
    /\ ~MarkerEmitted => pc = "raised"

\* every run of run_agent terminates, and stays as EndsWithinCeiling says
RunTerminates == <>[]EndsWithinCeiling

\* C6: in a run of main no URL is fetched twice and no URL is submitted
\* twice: a response that names a visited URL stops the loop before another
\* GET or POST
C6_NoUrlFetchedTwice ==
    /\ \A i, j \in DOMAIN fetched : fetched[i] = fetched[j] => i = j
    /\ \A i, j \in DOMAIN posted :
          posted[i].payload.url = posted[j].payload.url => i = j
    /\ Len(posted) <= Len(fetched)

\* C6's case: the response named the URL just solved and main returned
\* without another GET
C6_Witness ==
    /\ pc = "exit"
    /\ result.has_url
    /\ result.url = current_challenge_url
    /\ Len(fetched) = 2
    /\ fetched[2] = current_challenge_url
    /\ Len(posted) = 2

\* C7 (as claimed): no POST is issued for a challenge whose name matches no
\* entry of the dispatch table
C7_NoPostForUnknownChallenge ==
    \A i \in DOMAIN posted :
        ~UnknownChallenge(LastSegment(posted[i].payload.url))

\* C8 (as claimed): in a run of main no request goes to the reasoning
\* capability
C8_DelegateFree == gemini_calls = 0

\* something failed in the latest run of main: the fetch, the computation
\* of the answer, or the reading of the submission's response
SolverFailure ==
    \/ data.kind \in {"exception", "status", "not_json"}
    \/ data.kind = "ok" /\ answer.kind = "none"
    \/ result.kind = "not_dict"

\* C9 (as claimed): after a failure inside main on a handoff, agent_node
\* does not produce the failsafe message and run_agent prints no success
C9_FallbackFailureIsFatal ==
    (caller = "agent_node" /\ SolverFailure)
        => (/\ \A i \in DOMAIN messages : messages[i].content # Str(FailsafeText)
            /\ SuccessLine \notin Range(stdout))

\* C10: run_agent returns normally, and prints its acknowledgement, only
\* when the latest message has no tool calls and its content trims to
\* "END"; any other end of the run is an error raised to the caller
C10_NormalReturnOnlyOnMarker ==
    /\ (SuccessLine \in Range(stdout)) <=> (pc = "done")
    /\ pc = "done" => (/\ ~Truthy(ToolCallsOf(Latest))
                       /\ IsMarker(ContentOf(Latest))
                       /\ route_result = END
                       /\ error = "")
    /\ pc = "raised" => error # ""

\* C10's case: the run returned normally after a tool round
C10_Witness ==
    /\ pc = "done"
    /\ stdout = <<SuccessLine>>
    /\ Len(messages) = 4
    /\ messages[3].type = "tool"
    /\ Latest.content = Str("END")

FoundPath ==
    IF Exists(audio_path) THEN audio_path
    ELSE IF Exists(AltPath(audio_path)) THEN AltPath(audio_path)
    ELSE ""

\* text starts with prefix
StartsWith(text, prefix) ==
    Len(text) >= Len(prefix) /\ SubSeq(text, 1, Len(prefix)) = prefix

\* C12: a call of transcribe_audio always returns a str and never raises;
\* it returns "Error: File <audio_path> does not exist." when the file is
\* neither at audio_path nor under LLMFiles, and a str that starts with
\* "Error transcribing audio: " when reading the file or the call of the
\* Gemini client fails
C12_ToolFailureIsContent ==
    pc = "transcribed" =>
        /\ tool_return.kind = "str"
        /\ FoundPath = "" =>
              tool_return.text = "Error: File " \o audio_path \o " does not exist."
        /\ (FoundPath # "" /\ (files[FoundPath] = "unreadable" \/ genai.raises)) =>
              StartsWith(tool_return.text, "Error transcribing audio: ")

\* C12's case: the file was found under LLMFiles only and the Gemini client
\* raised; the error came back as the tool's content
C12_Witness ==
    /\ pc = "transcribed"
    /\ audio_path = "audio/clip.wav"
    /\ FoundPath = "LLMFiles/clip.wav"
    /\ files[FoundPath] = "file"
    /\ genai.raises
    /\ tool_return = Returns("Error transcribing audio: 503 UNAVAILABLE", "audio/wav")

\* C14: the conversation is append-only.  A step that changes it leaves
\* every earlier message where and as it was; a step of agent_node (on the
\* normal path, pc = "agent", and when main has returned, pc = "return")
\* adds exactly one message, an AIMessage; a step of the Tool Executor adds
\* ToolMessages only; and every step of the graph adds something
C14_AppendOnly ==
    [][/\ step' # step => messages' # messages
       /\ messages' # messages =>
            /\ Len(messages') > Len(messages)
            /\ SubSeq(messages', 1, Len(messages)) = messages
            /\ pc \in {"agent", "return"} =>
                  /\ Len(messages') = Len(messages) + 1
                  /\ messages'[Len(messages')].type = "ai"
            /\ pc = "tools" =>
                  \A k \in (Len(messages) + 1)..Len(messages') :
                      messages'[k].type = "tool"]_vars

\* C14's case: the seed, the failsafe message of a handoff, a tool request
\* and its result, each appended once
C14_Witness ==
    /\ Len(messages) = 4
    /\ messages[1].type = "human"
    /\ messages[2].content = Str(FailsafeText)
    /\ messages[3].type = "ai"
    /\ Len(messages[3].tool_calls) = 1
    /\ messages[4].type = "tool"
    /\ \A i \in 1..4 : messages[i].id = i

(***************************************************************************)
(* The direct solver and the remote responses.                             *)
(***************************************************************************)
\* C13 (as claimed): whatever the remote responses are, no exception
\* leaves main: a run of main ends by returning
C13_MalformedResponseEndsLoop ==
    /\ pc # "crashed"
    /\ (caller = "agent_node" /\ pc = "raised") => error = "GraphRecursionError"

\* a standalone run of main is over: it returned, or an exception left it
SolverEnded == pc \in {"exit", "crashed"}

\* C15: every run of main ends, whatever URLs of the finite set the server
\* names and however long it goes on naming them; an iteration goes on to
\* its GET only with a URL that is not in visited, and adds it; visited
\* holds only the start URL and URLs the server named
C15_SolverTerminates ==
    /\ <>[]SolverEnded
    /\ [][(pc = "main" /\ pc' = "fetch") =>
             /\ current_challenge_url \notin visited
             /\ visited' = visited \cup {current_challenge_url}]_vars
    /\ [](visited \subseteq (Urls \cup StartUrls))

\* C15's case: the arbitrary responses are spent, the server goes on naming
\* the URL it named last, and the cycle guard ended the run
C15_Witness ==
    /\ pc = "exit"
    /\ budget = 0
    /\ Len(fetched) = 3
    /\ Len(posted) = 3
    /\ result.has_url
    /\ result.url = current_challenge_url
    /\ current_challenge_url \in visited

\* C16 (as claimed): the email and the secret of every payload main
\* submits are the EMAIL and SECRET of the environment
C16_PayloadUsesConfiguredIdentity ==
    \A i \in DOMAIN posted :
        /\ posted[i].payload.email = environ.EMAIL
        /\ posted[i].payload.secret = environ.SECRET

(***************************************************************************)
(* The graph's transitions.                                                *)
(***************************************************************************)
\* C17 (as claimed): every reasoning call agent_node has made acquired a
\* token from the rate limiter
C17_EveryCallAcquiresToken == Acquired(llm_calls) = llm_calls

\* agent_node is running: the reasoning call, or the direct solver it called
InAgentNode == pc \in {"agent", "main", "fetch", "solve", "submit", "return"}

\* the parts of the order of transitions that C18 and its amendment share:
\* the tools node is entered only from agent_node with a latest message
\* that has a tool call, and the run returns only from agent_node
EntersFromAgent ==
    /\ (pc' = "tools" /\ pc # "tools") =>
          (InAgentNode /\ Len(messages'[Len(messages')].tool_calls) >= 1)
    /\ (pc' = "done" /\ pc # "done") => InAgentNode

\* C18 (as claimed): the first node is agent_node, the tools node is entered
\* only after an agent_node whose message has a tool call, every step of
\* the tools node is followed by agent_node, and the run returns only
\* after agent_node
C18_TransitionOrder ==
    /\ [](step = 0 => pc \notin {"tools", "done"})
    /\ [][EntersFromAgent /\ (pc = "tools" => pc' = "agent")]_vars

\* C18 (amended): as claimed, except that the step of the tools node that
\* is superstep number recursion_limit is followed by the
\* GraphRecursionError and not by agent_node
C18_TransitionOrderUpToCeiling ==
    /\ [](step = 0 => pc \notin {"tools", "done"})
    /\ [][/\ EntersFromAgent
          /\ pc = "tools" =>
                \/ pc' = "agent" /\ step' < recursion_limit
                \/ /\ pc' = "raised"
                   /\ error' = "GraphRecursionError"
                   /\ step' = recursion_limit]_vars

\* C18's case: the tools node ran as the last superstep under the ceiling
\* and the run was aborted after it
C18_Witness ==
    /\ pc = "raised"
    /\ error = "GraphRecursionError"
    /\ step = recursion_limit
    /\ Latest.type = "tool"
    /\ messages[Len(messages) - 1].type = "ai"
    /\ Len(messages[Len(messages) - 1].tool_calls) = 1

(***************************************************************************)
(* The direct solver's submissions.                                        *)
(***************************************************************************)
\* C19: the i-th submission of a run of main is for the i-th URL fetched;
\* a submission is made only when the latest fetch gave status 200 and
\* JSON; a fetch that failed is followed by no submission; and no URL is
\* submitted twice
C19_SubmitOnlyAfterFetch ==
    /\ Len(posted) <= Len(fetched)
    /\ Len(fetched) <= Len(posted) + 1
    /\ \A i \in DOMAIN posted : posted[i].payload.url = fetched[i]
    /\ \A i, j \in DOMAIN posted :
          posted[i].payload.url = posted[j].payload.url => i = j
    /\ (Len(posted) = Len(fetched) /\ Len(posted) > 0) => data.kind = "ok"
    /\ pc = "submit" => data.kind = "ok"
    /\ data.kind \in {"exception", "status", "not_json"} =>
          (Len(posted) = Len(fetched) - 1 /\ pc \in {"return", "exit"})

\* C19's case: the first challenge was submitted, the fetch of the second
\* gave a status other than 200, and main returned without a submission
\* for it
C19_Witness ==
    /\ pc = "exit"
    /\ Len(fetched) = 2
    /\ Len(posted) = 1
    /\ posted[1].payload.url = fetched[1]
    /\ data.kind = "status"

\* C20: after a submission main goes on to the "url" of the response
\* exactly when the response is a dict with a non-empty "url", whatever
\* "correct" is; otherwise the loop of main ends with the current URL
\* unchanged and without another submission
C20_NextIsResponseUrl ==
    [][pc = "submit" =>
          /\ Len(posted') = Len(posted) + 1
          /\ IF result'.kind = "dict" /\ result'.has_url /\ result'.url # ""
             THEN pc' = "main" /\ current_challenge_url' = result'.url
             ELSE pc' = "return"
                  /\ current_challenge_url' = current_challenge_url]_vars

\* C20's case: a wrong answer whose response named another URL; main went on
\* to fetch that URL
C20_Witness ==
    /\ pc = "solve"
    /\ Len(posted) = 1
    /\ result.has_correct
    /\ ~result.correct
    /\ result.has_url
    /\ result.url = current_challenge_url
    /\ fetched = <<start_url, result.url>>
    /\ start_url # result.url

(***************************************************************************)
(* The handoff.                                                            *)
(***************************************************************************)
\* C21: in a run of main that agent_node started, the first GET is for
\* main's default start URL and every POST goes to the scheme and host of
\* that URL followed by "/submit", whatever the seed URL of run_agent, the
\* conversation so far and the pages fetched are
C21_HandoffStartsAtDefault ==
    caller = "agent_node" =>
        /\ start_url = DefaultStartUrl
        /\ Len(fetched) >= 1 => fetched[1] = DefaultStartUrl
        /\ \A i \in DOMAIN posted : posted[i].endpoint = Base \o "/submit"

\* C21's case: the run was seeded with another URL, the primary loop had
\* run a tool, the page fetched named another endpoint, and the submission
\* went to the default host
C21_Witness ==
    /\ caller = "agent_node"
    /\ messages[1].content = Str(Base \o "/project2-uv")
    /\ Len(messages) >= 3
    /\ messages[3].type = "tool"
    /\ fetched = <<DefaultStartUrl>>
    /\ data = GetOk("POST your answer to https://quiz.example.org/submit")
    /\ Len(posted) = 1
    /\ posted[1].endpoint = "https://tds-llm-analysis.s-anand.net/submit"
    /\ posted[1].payload.url = DefaultStartUrl

====
